---- MODULE Spec2Model ----
(***************************************************************************)
(* Model of the `server` crate of rust-playground: the ThreadPool of       *)
(* src/server/src/lib.rs (workers sharing one mpsc channel behind a        *)
(* Mutex), WebServer::start with its accept loop, and the connection       *)
(* handling pipeline (read, parse, resolve, write) of both versions of    *)
(* the web_server module (inline in lib.rs, and web_server.rs).            *)
(***************************************************************************)
EXTENDS Integers, Sequences, FiniteSets, TLC

\* ------------------------------------------------------------------ bounds
MaxWorkers == 2      \* largest thread_limit passed to WebServer::new / ThreadPool::new
MaxJobs == 4         \* closures handed to ThreadPool::execute in one run
MaxConns == 2        \* connections accepted by WebServer::start in one run
MaxCalls == 4        \* calls of Cacher::value in one run

VARIABLES
    pc,            \* where the thread that owns the pool is (start, or a client of the pool)
    result,        \* what start has returned to its caller ("none" while it runs)
    module,        \* which source of the web_server module is built: "lib.rs" or "web_server.rs"
    thread_limit,  \* WebServer.thread_limit / the size given to ThreadPool::new
    routes,        \* WebServer.routes: path -> file name
    files,         \* the file system: file name -> contents
    workers,       \* ThreadPool.workers.len()
    thread,        \* per worker: where its thread is in the loop of Worker::new
    current,       \* per worker: the job it is executing (0: none)
    guard,         \* the worker holding the MutexGuard of the receiver (0: none)
    poisoned,      \* the Mutex around the receiver is poisoned
    queue,         \* the messages in the mpsc channel, oldest first
    sender,        \* ThreadPool.sender has not been dropped
    pending,       \* the closure start (or the client) is about to pass to execute
    jobs,          \* the closures passed to execute so far; a job's id is its index
    delivered,     \* per job: how many times a worker received it
    ran,           \* per job: "no", "running", "returned" or "panicked"
    handled,       \* per job: how handle_connection ended: "Ok", "Err" or "panic"
    steps,         \* per job: the steps of handle_connection it completed
    socket,        \* per job: the responses written to its connection
    sent,          \* Terminate messages sent by drop so far
    joined,        \* workers joined by drop so far
    request,       \* input of the resolver run (a parsed request)
    outcome,       \* output of the resolver run
    cacher,        \* the Cacher: its calculation and its values map
    calls,         \* the arguments Cacher::value was called with, oldest first
    returned,      \* what the last call of Cacher::value returned
    received,      \* input of the parser run (the bytes read from a connection)
    parse          \* output of the parser run

poolVars == <<workers, thread, current, guard, poisoned, queue, sender>>
jobVars == <<pending, jobs, delivered, ran, handled, steps, socket>>
dropVars == <<sent, joined>>
envVars == <<module, thread_limit, routes, files>>
cacherVars == <<cacher, calls, returned>>
parserVars == <<received, parse>>
pureVars == <<request, outcome, cacherVars, parserVars>>
vars == <<pc, result, envVars, poolVars, jobVars, dropVars, pureVars>>

WorkerIds == 1..MaxWorkers
JobIds == 1..MaxJobs

\* ------------------------------------------------------------------ bytes
\* A byte string is a sequence of one-byte symbols; CR, LF, SP, TAB and NUL
\* name the bytes 0x0D, 0x0A, 0x20, 0x09 and 0x00.
Whitespace == {"SP", "TAB", "CR", "LF"}

\* let mut buffer = [0; 512]
BUFFER_SIZE == 512

NUL == "NUL"

\* stream.read(&mut buffer): the bytes received, in a zeroed buffer of 512 bytes
Buffer(data) ==
    [i \in 1..BUFFER_SIZE |-> IF i <= Len(data) THEN data[i] ELSE NUL]

\* The byte strings the code compares against.
HTTP_09 == <<"H", "T", "T", "P", "/", "0", ".", "9">>
HTTP_10 == <<"H", "T", "T", "P", "/", "1", ".", "0">>
HTTP_11 == <<"H", "T", "T", "P", "/", "1", ".", "1">>
HTTP_2 == <<"H", "T", "T", "P", "/", "2", ".", "0">>
HTTP_3 == <<"H", "T", "T", "P", "/", "3", ".", "0">>
Versions == {HTTP_09, HTTP_10, HTTP_11, HTTP_2, HTTP_3}

GET == <<"G", "E", "T">>
POST == <<"P", "O", "S", "T">>
HEAD == <<"H", "E", "A", "D">>
OPTIONS == <<"O", "P", "T", "I", "O", "N", "S">>
DELETE == <<"D", "E", "L", "E", "T", "E">>
PUT == <<"P", "U", "T">>

\* The least index i >= from of buf with buf[i] in stop, or 0 when there is none.
FirstIn(buf, from, stop) ==
    IF \A i \in from..Len(buf) : buf[i] \notin stop THEN 0
    ELSE CHOOSE i \in from..Len(buf) :
             buf[i] \in stop /\ \A k \in from..(i - 1) : buf[k] \notin stop

\* Regex::find_iter for the two patterns "(.*?)\r?\n" and "(.*?)\s": `.` matches
\* every byte but LF, so the leftmost match from position `from` runs up to and
\* including the first byte of `stop`; the next search starts behind it.
\* A match is a range [start, end) of 1-based positions; <<>> is None.
RECURSIVE find_iter(_, _, _)
find_iter(buf, from, stop) ==
    LET e == FirstIn(buf, from, stop)
    IN  IF e = 0 THEN <<>>
        ELSE <<[start |-> from, end |-> e + 1]>> \o find_iter(buf, e + 1, stop)

Slice(buf, m) == SubSeq(buf, m.start, m.end - 1)

\* Method::from_bytes: a method is a non-empty token
method_from_bytes(bytes) ==
    IF bytes # <<>> /\ \A i \in 1..Len(bytes) : bytes[i] \notin Whitespace \cup {NUL, ":"}
    THEN [ok |-> TRUE, method |-> bytes]
    ELSE [ok |-> FALSE, method |-> <<>>]

\* Uri parsing (http::Uri), and Uri::path: the part of an origin-form target
\* in front of the first "?"
uri_from_bytes(bytes) ==
    IF bytes = <<>> \/ \E i \in 1..Len(bytes) : bytes[i] \in Whitespace \cup {NUL}
    THEN [ok |-> FALSE, path |-> <<>>, query |-> <<>>]
    ELSE LET q == FirstIn(bytes, 1, {"?"})
         IN  IF bytes[1] # "/" THEN [ok |-> TRUE, path |-> <<>>, query |-> <<>>]
             ELSE IF q = 0 THEN [ok |-> TRUE, path |-> bytes, query |-> <<>>]
             ELSE [ok |-> TRUE, path |-> SubSeq(bytes, 1, q - 1),
                   query |-> SubSeq(bytes, q + 1, Len(bytes))]

NoRequest == [method |-> <<>>, uri |-> [path |-> <<>>, query |-> <<>>],
              version |-> <<>>, headers |-> <<>>, body |-> <<>>]

Panic(where) == [panic |-> TRUE, at |-> where, request |-> NoRequest]

\* RE = "(?P<key>.*?):(?P<value>.*)" on one line: key is what precedes the
\* first ":", value everything behind it up to the line feed.
header_captures(line) ==
    LET c == FirstIn(line, 1, {":"})
        lf == FirstIn(line, 1, {"LF"})
        stop == IF lf = 0 THEN Len(line) ELSE lf - 1
    IN  IF c = 0 THEN [ok |-> FALSE, key |-> <<>>, value |-> <<>>]
        ELSE [ok |-> TRUE, key |-> SubSeq(line, 1, c - 1),
              value |-> SubSeq(line, c + 1, stop)]

\* HeaderName / HeaderValue validation of Builder::header
header_valid(h) ==
    /\ h.key # <<>>
    /\ \A i \in 1..Len(h.key) : h.key[i] \notin Whitespace \cup {NUL, ":"}
    /\ \A i \in 1..Len(h.value) : h.value[i] \notin {"CR", "LF", NUL}

\* The header loop of parse_request: from line k of `lines`, the headers read
\* and the index of the line the loop stopped in front of (0: lines.next()
\* gave None), or a panic of RE.captures(..).unwrap().
RECURSIVE parse_headers(_, _, _, _)
parse_headers(buffer, lines, k, acc) ==
    IF k > Len(lines) THEN [panic |-> FALSE, headers |-> acc, next |-> 0]
    ELSE IF lines[k].start = lines[k].end
         THEN [panic |-> FALSE, headers |-> acc, next |-> k + 1]
    ELSE LET header == header_captures(Slice(buffer, lines[k]))
         IN  IF ~header.ok THEN [panic |-> TRUE, headers |-> acc, next |-> 0]
             ELSE parse_headers(buffer, lines, k + 1,
                                Append(acc, [key |-> header.key, value |-> header.value]))

\* fn parse_request(buffer: &[u8]) -> Request<&[u8]>
parse_request(buffer) ==
    LET lines == find_iter(buffer, 1, {"LF"})
    IN  IF lines = <<>> THEN Panic("lines.next().unwrap()")
        ELSE
        LET first_line == Slice(buffer, lines[1])
            tokens == find_iter(first_line, 1, Whitespace)
        IN  IF Len(tokens) < 3 THEN Panic("tokens.next().unwrap()")
            ELSE
            LET method == Slice(first_line, tokens[1])
                uri == Slice(first_line, tokens[2])
                version == Slice(first_line, tokens[3])
            IN  IF version \notin Versions THEN Panic("unreachable!()")
                ELSE
                LET hs == parse_headers(buffer, lines, 2, <<>>)
                    m == method_from_bytes(method)
                    u == uri_from_bytes(uri)
                    body == IF hs.next = 0 \/ hs.next > Len(lines) THEN <<>>
                            ELSE SubSeq(buffer, lines[hs.next].start, Len(buffer))
                IN  IF hs.panic THEN Panic("RE.captures().unwrap()")
                    ELSE IF ~m.ok \/ ~u.ok
                            \/ \E i \in 1..Len(hs.headers) : ~header_valid(hs.headers[i])
                         THEN Panic("request.body(body).unwrap()")
                    ELSE [panic |-> FALSE, at |-> "",
                          request |-> [method |-> m.method,
                                       uri |-> [path |-> u.path, query |-> u.query],
                                       version |-> version,
                                       headers |-> hs.headers,
                                       body |-> body]]

\* ------------------------------------------------------------- resolver
NoResponse == [panic |-> TRUE, status |-> 0, version |-> <<>>, body |-> <<>>]

\* fs::read_to_string(file)
read_to_string(fs, file) ==
    IF file \in DOMAIN fs THEN [ok |-> TRUE, contents |-> fs[file]]
    ELSE [ok |-> FALSE, contents |-> ""]

\* Response::builder().status(code).body(body): the version is the builder's
\* default, HTTP/1.1
Response(code, body) ==
    [panic |-> FALSE, status |-> code, version |-> HTTP_11, body |-> body]

\* Variant of response that answers HEAD and OPTIONS like GET (C7 must not
\* hold of it).
response_head_as_get(rt, fs, req) ==
    IF req.method \in {GET, POST, HEAD, OPTIONS}
    THEN IF req.uri.path \in DOMAIN rt
         THEN LET body == read_to_string(fs, rt[req.uri.path])
              IN  IF body.ok THEN Response(200, <<body.contents>>) ELSE NoResponse
         ELSE LET body == read_to_string(fs, "404.html")
              IN  IF body.ok THEN Response(404, <<body.contents>>) ELSE NoResponse
    ELSE Response(405, <<"Server does not allow ", req.method, " requests">>)

\* fn response(routes, request) -> http::Result<Response<String>>, with the
\* panics of its unwrap()s
response(rt, fs, req) ==
    IF req.method \in {GET, POST}
    THEN IF req.uri.path \in DOMAIN rt
         THEN LET body == read_to_string(fs, rt[req.uri.path])
              IN  IF body.ok THEN Response(200, <<body.contents>>) ELSE NoResponse
         ELSE LET body == read_to_string(fs, "404.html")
              IN  IF body.ok THEN Response(404, <<body.contents>>) ELSE NoResponse
    ELSE IF req.method \in {HEAD, OPTIONS}
    THEN Response(501, <<"Server does not support ", req.method, " requests">>)
    ELSE Response(405, <<"Server does not allow ", req.method, " requests">>)

\* ---------------------------------------------------------------- cacher
\* The calculations the repository builds a Cacher from: |a| a in the test of
\* lib.rs, |(a, b)| a + b in main.rs.
Calculations == {"identity", "sum"}

calculation(name, arg) == IF name = "identity" THEN arg ELSE arg[1] + arg[2]

\* The arguments value is called with.
Args(name) ==
    IF name = "identity" THEN {1, 2, 3}
    ELSE {<<1, 1>>, <<2, 2>>, <<3, 3>>, <<1, 2>>}

\* Cacher::new(calculation)
Cacher_new(name) == [calculation |-> name, values |-> <<>>]

\* Variant of Cacher_value that keeps a single value, whatever the argument
\* (C11 must not hold of it).
Cacher_value_single(self, arg) ==
    IF DOMAIN self.values # {}
    THEN [self |-> self, ret |-> self.values[CHOOSE k \in DOMAIN self.values : TRUE]]
    ELSE LET v == calculation(self.calculation, arg)
         IN  [self |-> [self EXCEPT !.values = (arg :> v)], ret |-> v]

\* Cacher::value(&mut self, arg) -> &V: the argument of or_insert, the
\* calculation's result, is computed before the entry is looked at; it is
\* stored only when the entry is vacant, and the entry's value is returned.
Cacher_value(self, arg) ==
    LET v == calculation(self.calculation, arg)
        values == IF arg \in DOMAIN self.values THEN self.values
                  ELSE self.values @@ (arg :> v)
    IN  [self |-> [self EXCEPT !.values = values], ret |-> values[arg]]

\* ---------------------------------------------------- connection handler
\* What one run of handle_connection did: how it ended ("Ok", "Err" or
\* "panic"), the steps it completed, and what it wrote to the stream.
Handled(how, completed, written) ==
    [result |-> how, steps |-> completed, written |-> written]

\* resolve and write, the tail both versions of handle_connection share
respond(rt, fs, stream, req) ==
    LET resp == response(rt, fs, req)
    IN  IF resp.panic THEN Handled("panic", <<"read", "parse">>, <<>>)
        ELSE IF stream.write # "ok"
             THEN Handled("panic", <<"read", "parse", "resolve">>, <<>>)
        ELSE Handled("Ok", <<"read", "parse", "resolve", "write">>,
                     <<[version |-> resp.version, status |-> resp.status,
                        body |-> resp.body]>>)

\* web_server.rs: fn handle_connection(routes, stream) -> Result<(), Box<dyn Error>>
handle_connection(rt, fs, stream) ==
    IF stream.read # "ok" THEN Handled("Err", <<>>, <<>>)
    ELSE LET parsed == parse_request(Buffer(stream.data))
         IN  IF parsed.panic THEN Handled("panic", <<"read">>, <<>>)
             ELSE respond(rt, fs, stream, parsed.request)

\* str::split_whitespace from position `from`
RECURSIVE split_whitespace(_, _)
split_whitespace(line, from) ==
    IF \A i \in from..Len(line) : line[i] \in Whitespace THEN <<>>
    ELSE LET b == CHOOSE i \in from..Len(line) :
                      line[i] \notin Whitespace
                      /\ \A k \in from..(i - 1) : line[k] \in Whitespace
             e == FirstIn(line, b, Whitespace)
         IN  IF e = 0 THEN <<SubSeq(line, b, Len(line))>>
             ELSE <<SubSeq(line, b, e - 1)>> \o split_whitespace(line, e + 1)

\* buffer.lines().get(0): the bytes in front of the first line feed, without
\* the carriage return that precedes it; the whole buffer when it has none
first_of_lines(buffer) ==
    LET lf == FirstIn(buffer, 1, {"LF"})
    IN  IF lf = 0 THEN buffer
        ELSE IF lf > 1 /\ buffer[lf - 1] = "CR" THEN SubSeq(buffer, 1, lf - 2)
        ELSE SubSeq(buffer, 1, lf - 1)

\* lib.rs, handle_connection: from the buffer to the Request it builds, with
\* the panics of its unwrap()s and unreachable!()s
lib_parse_request(buffer) ==
    LET tokens == split_whitespace(first_of_lines(buffer), 1)
    IN  IF Len(tokens) < 2 THEN Panic(".get(0..2).unwrap()")
        ELSE
        LET slice == SubSeq(tokens, 1, 2)
        IN  IF Len(slice) # 3 THEN Panic("unreachable!()")
            ELSE
            LET m == method_from_bytes(slice[1])
                u == uri_from_bytes(slice[2])
            IN  IF ~m.ok THEN Panic("Method::from_bytes().unwrap()")
                ELSE IF slice[3] \notin Versions THEN Panic("unreachable!()")
                ELSE IF ~u.ok THEN Panic(".body(vec![]).unwrap()")
                ELSE [panic |-> FALSE, at |-> "",
                      request |-> [method |-> m.method,
                                   uri |-> [path |-> u.path, query |-> u.query],
                                   version |-> slice[3], headers |-> <<>>, body |-> <<>>]]

\* lib.rs: fn handle_connection(routes, stream) -> Result<(), Box<dyn Error>>
lib_handle_connection(rt, fs, stream) ==
    IF stream.read # "ok" THEN Handled("Err", <<>>, <<>>)
    ELSE LET parsed == lib_parse_request(Buffer(stream.data))
         IN  IF parsed.panic THEN Handled("panic", <<"read">>, <<>>)
             ELSE respond(rt, fs, stream, parsed.request)

\* ---------------------------------------------------------------- closures
NoStream == [data |-> <<>>, read |-> "err", write |-> "err"]

\* A closure given to execute: the task of WebServer::start, which handles one
\* connection, or any other FnOnce(), which returns or panics.
Task(stream) == [kind |-> "conn", panics |-> FALSE, stream |-> stream]
Job(panics) == [kind |-> "job", panics |-> panics, stream |-> NoStream]

\* The data the clients of the model send.
GoodRequest ==     \* "GET / HTTP/1.1\r\n\r\n"
    <<"G", "E", "T", "SP", "/", "SP", "H", "T", "T", "P", "/", "1", ".", "1", "CR", "LF", "CR", "LF">>
Requests == {
    GoodRequest,
    <<"G", "E", "T", "SP", "/", "CR", "LF">>,
    <<"P", "O", "S", "T", "SP", "/", "m", "SP", "H", "T", "T", "P", "/", "1", ".", "1", "LF", "LF">>
}

\* The connections listener.incoming() yields: what the client sent, and
\* whether reading from and writing to the socket succeed.
Streams ==
    {[data |-> d, read |-> "ok", write |-> "ok"] : d \in Requests}
    \cup {[data |-> <<>>, read |-> "err", write |-> "ok"],
          [data |-> <<>>, read |-> "ok", write |-> "ok"],
          [data |-> GoodRequest, read |-> "ok", write |-> "err"]}

\* main.rs: the route table of the binary, and the files it may find on disk
MainRoutes == (<<"/">> :> "hello.html")
FileSystems == {
    ("hello.html" :> "<html>Hi</html>") @@ ("404.html" :> "Not Found"),
    ("404.html" :> "Not Found")
}

Modules == {"lib.rs", "web_server.rs"}

\* The handling of one connection by the module built
handle(mod, rt, fs, stream) ==
    IF mod = "lib.rs" THEN lib_handle_connection(rt, fs, stream)
    ELSE handle_connection(rt, fs, stream)

\* handle, evaluated once for each connection, route table and file system of
\* the model
Handling ==
    [mod \in Modules, rt \in {MainRoutes}, fs \in FileSystems, stream \in Streams |->
        handle(mod, rt, fs, stream)]

\* Running the closure: || { handle_connection(routes, stream).unwrap(); }
call(f, mod, rt, fs) ==
    IF f.kind = "job"
    THEN [panicked |-> f.panics, handled |-> "", steps |-> <<>>, written |-> <<>>]
    ELSE LET h == Handling[mod, rt, fs, f.stream]
         IN  [panicked |-> h.result # "Ok", handled |-> h.result, steps |-> h.steps,
              written |-> h.written]

\* ------------------------------------------------------------ thread pool
\* enum Message { NewJob(Job), Terminate }
NewJob(job) == [type |-> "NewJob", job |-> job]
Terminate == [type |-> "Terminate", job |-> 0]

Spawned == 1..workers

\* The thread of worker w has ended: by `break`, or by a panic.
Ended(w) == thread[w] \in {"terminated", "panicked"}

\* Every clone of the Arc around the receiver is gone (ThreadPool::new keeps
\* none, each worker thread owns one until it ends): the receiver is dropped.
Disconnected == workers > 0 /\ \A w \in Spawned : Ended(w)

\* The channel's contents once the thread of worker w has ended, leaving q:
\* dropping the receiver drops the messages still in it.
AfterExit(w, q) == IF \A v \in Spawned \ {w} : Ended(v) THEN <<>> ELSE q

\* Variant of ThreadPool_new without the check of size 0 (C3 must not hold of it).
ThreadPool_new_unchecked ==
    /\ pc = "new"
    /\ workers' = thread_limit
    /\ thread' = [w \in WorkerIds |-> IF w <= thread_limit THEN "idle" ELSE "none"]
    /\ pc' = "loop"
    /\ UNCHANGED <<result, current, guard, poisoned, queue, sender>>
    /\ UNCHANGED <<envVars, jobVars, dropVars, pureVars>>

\* ThreadPool::new(size)
ThreadPool_new ==
    /\ pc = "new"
    /\ IF thread_limit = 0
       THEN /\ result' = "PoolCreationError"
            /\ pc' = "returned"
            /\ UNCHANGED <<workers, thread>>
       ELSE /\ workers' = thread_limit
            /\ thread' = [w \in WorkerIds |-> IF w <= thread_limit THEN "idle" ELSE "none"]
            /\ pc' = "loop"
            /\ UNCHANGED result
    /\ UNCHANGED <<current, guard, poisoned, queue, sender>>
    /\ UNCHANGED <<envVars, jobVars, dropVars, pureVars>>

\* Variant of ThreadPool_execute over a rendezvous channel, whose send waits
\* for a worker that is receiving (C10 must not hold of it).
ThreadPool_execute_rendezvous ==
    /\ pc = "execute"
    /\ \E w \in Spawned : thread[w] = "recv"
    /\ jobs' = Append(jobs, pending)
    /\ queue' = Append(queue, NewJob(Len(jobs) + 1))
    /\ pc' = "loop"
    /\ UNCHANGED <<workers, thread, current, guard, poisoned, sender>>
    /\ UNCHANGED <<result, envVars, pending, delivered, ran, handled, steps, socket, dropVars, pureVars>>

\* Variant of ThreadPool_execute that puts the task in front of the messages
\* waiting in the channel (C12 must not hold of it).
ThreadPool_execute_front ==
    /\ pc = "execute"
    /\ IF Disconnected
       THEN /\ pc' = "aborted"
            /\ UNCHANGED <<queue, jobs>>
       ELSE /\ jobs' = Append(jobs, pending)
            /\ queue' = <<NewJob(Len(jobs) + 1)>> \o queue
            /\ pc' = "loop"
    /\ UNCHANGED <<workers, thread, current, guard, poisoned, sender>>
    /\ UNCHANGED <<result, envVars, pending, delivered, ran, handled, steps, socket, dropVars, pureVars>>

\* ThreadPool::execute(f): self.sender.send(Message::NewJob(job)).unwrap().
\* The send fails once the receiver is dropped; the panic unwinds through the
\* owner of the pool, whose drop panics again in its first send: an abort.
ThreadPool_execute ==
    /\ pc = "execute"
    /\ IF Disconnected
       THEN /\ pc' = "aborted"
            /\ UNCHANGED <<queue, jobs>>
       ELSE /\ jobs' = Append(jobs, pending)
            /\ queue' = Append(queue, NewJob(Len(jobs) + 1))
            /\ pc' = "loop"
    /\ UNCHANGED <<workers, thread, current, guard, poisoned, sender>>
    /\ UNCHANGED <<result, envVars, pending, delivered, ran, handled, steps, socket, dropVars, pureVars>>

\* Drop for ThreadPool, first loop: one send(Message::Terminate).unwrap() per worker
ThreadPool_drop_send ==
    /\ pc = "drop_send"
    /\ IF Disconnected
       THEN /\ pc' = "panicked"
            /\ sender' = FALSE
            /\ UNCHANGED <<queue, sent>>
       ELSE /\ queue' = Append(queue, Terminate)
            /\ sent' = sent + 1
            /\ pc' = IF sent + 1 = workers THEN "drop_join" ELSE "drop_send"
            /\ UNCHANGED sender
    /\ UNCHANGED <<workers, thread, current, guard, poisoned, joined>>
    /\ UNCHANGED <<result, envVars, jobVars, pureVars>>

\* Variant of ThreadPool_drop_join that drops each JoinHandle without joining
\* the thread (C2 must not hold of it).
ThreadPool_drop_detach ==
    /\ pc = "drop_join"
    /\ joined' = joined + 1
    /\ pc' = IF joined + 1 = workers THEN "returned" ELSE "drop_join"
    /\ sender' = (joined + 1 # workers)
    /\ UNCHANGED <<workers, thread, current, guard, poisoned, queue, sent>>
    /\ UNCHANGED <<result, envVars, jobVars, pureVars>>

\* Drop for ThreadPool, second loop: thread.join().unwrap() of the next worker,
\* which waits for its thread to end and panics when the thread panicked.
\* Leaving drop, by return or by panic, drops the sender.
ThreadPool_drop_join ==
    /\ pc = "drop_join"
    /\ Ended(joined + 1)
    /\ IF thread[joined + 1] = "panicked"
       THEN /\ pc' = "panicked"
            /\ sender' = FALSE
            /\ UNCHANGED joined
       ELSE /\ joined' = joined + 1
            /\ pc' = IF joined + 1 = workers THEN "returned" ELSE "drop_join"
            /\ sender' = (joined + 1 # workers)
    /\ UNCHANGED <<workers, thread, current, guard, poisoned, queue, sent>>
    /\ UNCHANGED <<result, envVars, jobVars, pureVars>>

\* Worker loop: receiver.lock().unwrap()
Worker_lock(w) ==
    /\ pc # "aborted"
    /\ w \in Spawned
    /\ thread[w] = "idle"
    /\ guard = 0
    /\ IF poisoned
       THEN /\ thread' = [thread EXCEPT ![w] = "panicked"]
            /\ queue' = AfterExit(w, queue)
            /\ UNCHANGED guard
       ELSE /\ thread' = [thread EXCEPT ![w] = "recv"]
            /\ guard' = w
            /\ UNCHANGED queue
    /\ UNCHANGED <<workers, current, poisoned, sender>>
    /\ UNCHANGED <<pc, result, envVars, jobVars, dropVars, pureVars>>

\* Variant of Worker_recv that keeps the guard while the job runs, as
\* `while let Ok(message) = receiver.lock().unwrap().recv()` would (C14 must
\* not hold of it).
Worker_recv_holding(w) ==
    /\ pc # "aborted"
    /\ w \in Spawned
    /\ thread[w] = "recv"
    /\ guard = w
    /\ queue # <<>> \/ ~sender
    /\ IF queue = <<>>
       THEN /\ poisoned' = TRUE
            /\ guard' = 0
            /\ thread' = [thread EXCEPT ![w] = "panicked"]
            /\ UNCHANGED <<queue, current, delivered, ran>>
       ELSE LET message == Head(queue)
            IN  IF message.type = "NewJob"
                THEN /\ thread' = [thread EXCEPT ![w] = "executing"]
                     /\ current' = [current EXCEPT ![w] = message.job]
                     /\ delivered' = [delivered EXCEPT ![message.job] = @ + 1]
                     /\ ran' = [ran EXCEPT ![message.job] = "running"]
                     /\ queue' = Tail(queue)
                     /\ guard' = w
                     /\ UNCHANGED poisoned
                ELSE /\ thread' = [thread EXCEPT ![w] = "terminated"]
                     /\ queue' = AfterExit(w, Tail(queue))
                     /\ guard' = 0
                     /\ UNCHANGED <<current, delivered, ran, poisoned>>
    /\ UNCHANGED <<workers, sender>>
    /\ UNCHANGED <<pc, result, envVars, pending, jobs, handled, steps, socket, dropVars, pureVars>>

\* Worker loop: .recv().unwrap() under the guard, the guard dropped at the end
\* of the statement, then the match on the message. recv waits while the
\* channel is empty and its sender lives, and fails when the sender is gone.
Worker_recv(w) ==
    /\ pc # "aborted"
    /\ w \in Spawned
    /\ thread[w] = "recv"
    /\ guard = w
    /\ queue # <<>> \/ ~sender
    /\ guard' = 0
    /\ IF queue = <<>>
       THEN /\ poisoned' = TRUE
            /\ thread' = [thread EXCEPT ![w] = "panicked"]
            /\ UNCHANGED <<queue, current, delivered, ran>>
       ELSE LET message == Head(queue)
            IN  IF message.type = "NewJob"
                THEN /\ thread' = [thread EXCEPT ![w] = "executing"]
                     /\ current' = [current EXCEPT ![w] = message.job]
                     /\ delivered' = [delivered EXCEPT ![message.job] = @ + 1]
                     /\ ran' = [ran EXCEPT ![message.job] = "running"]
                     /\ queue' = Tail(queue)
                     /\ UNCHANGED poisoned
                ELSE /\ thread' = [thread EXCEPT ![w] = "terminated"]
                     /\ queue' = AfterExit(w, Tail(queue))
                     /\ UNCHANGED <<current, delivered, ran, poisoned>>
    /\ UNCHANGED <<workers, sender>>
    /\ UNCHANGED <<pc, result, envVars, pending, jobs, handled, steps, socket, dropVars, pureVars>>

\* Worker loop: job(). A panic of the job unwinds the worker's thread.
Worker_job(w) ==
    /\ pc # "aborted"
    /\ w \in Spawned
    /\ thread[w] = "executing"
    /\ LET j == current[w]
           done == call(jobs[j], module, routes, files)
       IN  /\ ran' = [ran EXCEPT ![j] = IF done.panicked THEN "panicked" ELSE "returned"]
           /\ handled' = [handled EXCEPT ![j] = done.handled]
           /\ steps' = [steps EXCEPT ![j] = done.steps]
           /\ socket' = [socket EXCEPT ![j] = done.written]
           /\ thread' = [thread EXCEPT ![w] = IF done.panicked THEN "panicked" ELSE "idle"]
           /\ queue' = IF done.panicked THEN AfterExit(w, queue) ELSE queue
    /\ current' = [current EXCEPT ![w] = 0]
    /\ UNCHANGED <<workers, guard, poisoned, sender>>
    /\ UNCHANGED <<pc, result, envVars, pending, jobs, delivered, dropVars, pureVars>>

Worker(w) == Worker_lock(w) \/ Worker_recv(w) \/ Worker_job(w)

\* ------------------------------------------------------------- web server
NoJobs == [j \in JobIds |-> 0]

\* The state in which nothing of the pool exists yet.
Unbuilt ==
    /\ workers = 0
    /\ thread = [w \in WorkerIds |-> "none"]
    /\ current = [w \in WorkerIds |-> 0]
    /\ guard = 0
    /\ poisoned = FALSE
    /\ queue = <<>>
    /\ sender = TRUE
    /\ pending = Job(FALSE)
    /\ jobs = <<>>
    /\ delivered = NoJobs
    /\ ran = [j \in JobIds |-> "no"]
    /\ handled = [j \in JobIds |-> ""]
    /\ steps = [j \in JobIds |-> <<>>]
    /\ socket = [j \in JobIds |-> <<>>]
    /\ sent = 0
    /\ joined = 0
    /\ result = "none"

Unresolved ==
    /\ request = NoRequest
    /\ outcome = NoResponse

\* No Cacher is in use.
NoCacher ==
    /\ cacher = Cacher_new("identity")
    /\ calls = <<>>
    /\ returned = 0

NoParse == [panic |-> FALSE, at |-> "", request |-> NoRequest]

\* The parser has not been run.
Unparsed ==
    /\ received = <<>>
    /\ parse = NoParse

\* WebServer::new(thread_limit, routes), then the call of start
Init ==
    /\ pc = "bind"
    /\ module \in {"lib.rs", "web_server.rs"}
    /\ thread_limit \in 0..MaxWorkers
    /\ routes = MainRoutes
    /\ files \in FileSystems
    /\ Unbuilt
    /\ Unresolved
    /\ NoCacher
    /\ Unparsed

\* start: let listener = TcpListener::bind(ip)?
start_bind ==
    /\ pc = "bind"
    /\ \/ pc' = "new" /\ UNCHANGED result
       \/ pc' = "returned" /\ result' = "BindError"
    /\ UNCHANGED <<envVars, poolVars, jobVars, dropVars, pureVars>>

\* Variant of start_accept that takes the path "/" out of the route table
\* with each connection it accepts (C18 must not hold of it).
start_accept_unrouting ==
    /\ pc = "loop"
    /\ Len(jobs) < MaxConns
    /\ \E stream \in Streams : pending' = Task(stream)
    /\ pc' = "execute"
    /\ routes' = [p \in DOMAIN routes \ {<<"/">>} |-> routes[p]]
    /\ UNCHANGED <<result, module, thread_limit, files, poolVars, jobs, delivered, ran,
                   handled, steps, socket, dropVars, pureVars>>

\* start: for stream in listener.incoming() { let stream = stream?; ... },
\* a connection accepted: the closure that handles it is built
start_accept ==
    /\ pc = "loop"
    /\ Len(jobs) < MaxConns
    /\ \E stream \in Streams : pending' = Task(stream)
    /\ pc' = "execute"
    /\ UNCHANGED <<result, envVars, poolVars, jobs, delivered, ran, handled, steps, socket,
                   dropVars, pureVars>>

\* start: `stream?` on a failed accept: start returns the error, which drops
\* the pool first
start_accept_err ==
    /\ pc = "loop"
    /\ result' = "AcceptError"
    /\ pc' = "drop_send"
    /\ UNCHANGED <<envVars, poolVars, jobVars, dropVars, pureVars>>

Next ==
    \/ start_bind
    \/ ThreadPool_new
    \/ start_accept
    \/ ThreadPool_execute
    \/ start_accept_err
    \/ ThreadPool_drop_send
    \/ ThreadPool_drop_join
    \/ \E w \in WorkerIds : Worker(w)

Spec == Init /\ [][Next]_vars

\* ------------------------------------------------- the pool, used directly
\* A client of the public API of the pool: ThreadPool::new(size), then
\* execute(f) for closures that return or panic, then the pool goes out of scope.
InitPool ==
    /\ pc = "new"
    /\ module = "lib.rs"
    /\ thread_limit \in 0..MaxWorkers
    /\ routes = MainRoutes
    /\ files \in {f \in FileSystems : "hello.html" \in DOMAIN f}
    /\ Unbuilt
    /\ Unresolved
    /\ NoCacher
    /\ Unparsed

client_execute ==
    /\ pc = "loop"
    /\ Len(jobs) < MaxJobs
    /\ \E panics \in BOOLEAN : pending' = Job(panics)
    /\ pc' = "execute"
    /\ UNCHANGED <<result, envVars, poolVars, jobs, delivered, ran, handled, steps, socket,
                   dropVars, pureVars>>

client_drop ==
    /\ pc = "loop"
    /\ pc' = "drop_send"
    /\ UNCHANGED <<result, envVars, poolVars, jobVars, dropVars, pureVars>>

NextPool ==
    \/ ThreadPool_new
    \/ client_execute
    \/ ThreadPool_execute
    \/ client_drop
    \/ ThreadPool_drop_send
    \/ ThreadPool_drop_join
    \/ \E w \in WorkerIds : Worker(w)

SpecPool == InitPool /\ [][NextPool]_vars

\* ------------------------------------------------- the resolver, on its own
\* response applied to one parsed request, for the route tables and file
\* systems below.
Methods == {GET, POST, HEAD, OPTIONS, DELETE, PUT, <<"F", "O", "O">>}
Paths == {<<"/">>, <<"/", "m">>, <<"/", "g">>}
RouteTables == {
    <<>>,
    MainRoutes,
    (<<"/">> :> "hello.html") @@ (<<"/", "g">> :> "gone.html")
}
Disks == {
    <<>>,
    ("hello.html" :> "<html>Hi</html>"),
    ("404.html" :> "Not Found"),
    ("hello.html" :> "<html>Hi</html>") @@ ("404.html" :> "Not Found")
}
ParsedRequests ==
    {[method |-> m, uri |-> [path |-> p, query |-> <<>>], version |-> HTTP_11,
      headers |-> <<>>, body |-> <<>>] : m \in Methods, p \in Paths}

InitResponse ==
    /\ pc = "resolve"
    /\ module = "web_server.rs"
    /\ thread_limit = 0
    /\ routes \in RouteTables
    /\ files \in Disks
    /\ Unbuilt
    /\ request \in ParsedRequests
    /\ outcome = NoResponse
    /\ NoCacher
    /\ Unparsed

\* let response = response(routes, request)
resolve ==
    /\ pc = "resolve"
    /\ outcome' = response(routes, files, request)
    /\ pc' = "resolved"
    /\ UNCHANGED <<result, envVars, poolVars, jobVars, dropVars, request, cacherVars, parserVars>>

SpecResponse == InitResponse /\ [][resolve]_vars

\* --------------------------------------------------- the cacher, on its own
\* let mut c = Cacher::new(calculation), then calls of c.value(arg)
InitCacher ==
    /\ pc = "cacher"
    /\ module = "lib.rs"
    /\ thread_limit = 0
    /\ routes = MainRoutes
    /\ files = <<>>
    /\ Unbuilt
    /\ Unresolved
    /\ \E name \in Calculations : cacher = Cacher_new(name)
    /\ calls = <<>>
    /\ returned = 0
    /\ Unparsed

\* c.value(arg)
value ==
    /\ pc = "cacher"
    /\ Len(calls) < MaxCalls
    /\ \E arg \in Args(cacher.calculation) :
           LET r == Cacher_value(cacher, arg)
           IN  /\ cacher' = r.self
               /\ returned' = r.ret
               /\ calls' = Append(calls, arg)
    /\ UNCHANGED <<pc, result, envVars, poolVars, jobVars, dropVars, request, outcome, parserVars>>

SpecCacher == InitCacher /\ [][value]_vars

\* --------------------------------------------------- the parser, on its own
CRLF == <<"CR", "LF">>
LF == <<"LF">>

\* What a client puts on the wire: the request line `METHOD PATH VERSION`, its
\* line break, header lines `key:value`, a blank line or none, and a body.
WireVersions == Versions \cup {<<"H", "T", "T", "P", "/", "1", ".", "2">>, <<"h", "t", "t", "p">>}
WireHeaders == {<<>>, <<[key |-> <<"H">>, value |-> <<"x">>]>>}
WireBodies == {<<>>, <<"h", "i">>, <<"h", "i">> \o CRLF}
Wires ==
    {w \in [method : {GET, DELETE}, path : {<<"/">>, <<"/", "m">>}, version : WireVersions,
            nl : {CRLF, LF}, headers : WireHeaders, blank : BOOLEAN, body : WireBodies] :
        ~w.blank => w.body = <<>>}

RECURSIVE HeaderBytes(_, _)
HeaderBytes(hs, nl) ==
    IF hs = <<>> THEN <<>>
    ELSE hs[1].key \o <<":">> \o hs[1].value \o nl \o HeaderBytes(Tail(hs), nl)

Bytes(w) ==
    w.method \o <<"SP">> \o w.path \o <<"SP">> \o w.version \o w.nl
        \o HeaderBytes(w.headers, w.nl)
        \o (IF w.blank THEN w.nl ELSE <<>>) \o w.body

\* The bytes stream.read leaves in the buffer: a client's request, a request
\* line of two tokens, or nothing.
ParseInputs ==
    {Bytes(w) : w \in Wires} \cup {<<>>, <<"G", "E", "T", "SP", "/", "CR", "LF">>}

\* The buffer parsed by the module built
parse_buffer(mod, data) ==
    IF mod = "lib.rs" THEN lib_parse_request(Buffer(data))
    ELSE parse_request(Buffer(data))

\* parse_buffer, evaluated once for each input of the model
Parsing == [mod \in Modules, data \in ParseInputs |-> parse_buffer(mod, data)]

InitParse ==
    /\ pc = "parse"
    /\ module \in Modules
    /\ thread_limit = 0
    /\ routes = MainRoutes
    /\ files = <<>>
    /\ Unbuilt
    /\ Unresolved
    /\ NoCacher
    /\ received \in ParseInputs
    /\ parse = NoParse

\* stream.read(&mut buffer)?; let request = parse_request(&buffer)
read_parse ==
    /\ pc = "parse"
    /\ parse' = Parsing[module, received]
    /\ pc' = "parsed"
    /\ UNCHANGED <<result, envVars, poolVars, jobVars, dropVars, request, outcome, cacherVars, received>>

SpecParse == InitParse /\ [][read_parse]_vars

\* ------------------------------------------------------------------ claims
\* The pool exists and its owner is not dropping it.
PoolAlive == pc \in {"loop", "execute"}

\* Drop for ThreadPool has returned.
DropReturned == pc = "returned" /\ workers > 0 /\ joined = workers

Queued(j) == \E i \in 1..Len(queue) : queue[i] = NewJob(j)

\* C1: while the pool is alive, every task passed to execute is received by
\* exactly one worker and executed once: no task is received twice or held
\* by two workers, and a task no worker has received yet is still in the
\* queue (it is not dropped).
C1_EveryTaskExactlyOnce ==
    PoolAlive =>
        \A j \in 1..Len(jobs) :
            /\ delivered[j] <= 1
            /\ Cardinality({w \in Spawned : current[w] = j}) <= 1
            /\ delivered[j] = 0 => Queued(j)

\* C2: when the drop of the pool has returned, every task passed to execute
\* before it has been received and has finished: none is still queued and
\* none is still executing.
C2_ShutdownWaitsForTasks ==
    DropReturned =>
        /\ \A j \in 1..Len(jobs) : delivered[j] = 1 /\ ran[j] \in {"returned", "panicked"}
        /\ \A i \in 1..Len(queue) : queue[i].type # "NewJob"
        /\ \A w \in Spawned : thread[w] # "executing"

\* More tasks than workers were submitted, and the drop of the pool has returned.
C2_Witness == DropReturned /\ workers >= 2 /\ Len(jobs) > workers

C4_ShutdownTerminatesEveryWorker ==
    (workers > 0 /\ pc \in {"drop_send", "drop_join", "returned", "panicked"}) =>
        /\ sent <= workers
        /\ pc # "panicked"
        /\ \A w \in Spawned : thread[w] # "panicked"
        /\ (\A w \in Spawned : Ended(w)) => queue = <<>>

Finished(j) == ran[j] \in {"returned", "panicked"}

\* C5: a failure inside one connection-handling task stays in that task: while
\* the pool is alive no worker's thread has ended, whatever the tasks did, and
\* every task submitted is queued, executing or finished.
C5_FailureContained ==
    PoolAlive =>
        /\ \A w \in Spawned : thread[w] \in {"idle", "recv", "executing"}
        /\ \A j \in 1..Len(jobs) : Queued(j) \/ delivered[j] = 1

\* C6: a connection that delivers "GET / HTTP/1.1\r\n\r\n", with "/" mapped to
\* a file that exists, is read, parsed, resolved and written to in that order:
\* once its task has ended, one response with status 200 and the file's
\* contents as body has been written, and the task returned (its worker goes
\* back to idle).
C6_GetRegisteredPath ==
    \A j \in 1..Len(jobs) :
        (/\ jobs[j].stream = [data |-> GoodRequest, read |-> "ok", write |-> "ok"]
         /\ routes[<<"/">>] \in DOMAIN files
         /\ Finished(j)) =>
            /\ ran[j] = "returned"
            /\ steps[j] = <<"read", "parse", "resolve", "write">>
            /\ Len(socket[j]) = 1
            /\ socket[j][1].status = 200
            /\ socket[j][1].body = <<files[routes[<<"/">>]]>>

\* C7: the resolver's outcome is fixed by the method and by whether the path is
\* a key of the route table: GET or POST on a key gives 200 with the mapped
\* file's contents, GET or POST on another path gives 404 with the contents of
\* 404.html (the file read being there in both cases), HEAD or OPTIONS gives
\* 501 and any other method 405, these two whatever the route table and the
\* file system hold.
C7_ResponseTable ==
    pc = "resolved" =>
        LET m == request.method
            p == request.uri.path
        IN  /\ (m \in {GET, POST} /\ p \in DOMAIN routes /\ routes[p] \in DOMAIN files) =>
                   /\ ~outcome.panic
                   /\ outcome.status = 200
                   /\ outcome.body = <<files[routes[p]]>>
            /\ (m \in {GET, POST} /\ p \notin DOMAIN routes /\ "404.html" \in DOMAIN files) =>
                   /\ ~outcome.panic
                   /\ outcome.status = 404
                   /\ outcome.body = <<files["404.html"]>>
            /\ m \in {HEAD, OPTIONS} =>
                   /\ ~outcome.panic
                   /\ outcome.status = 501
                   /\ \A rt \in RouteTables, fs \in Disks : response(rt, fs, request) = outcome
            /\ m \notin {GET, POST, HEAD, OPTIONS} =>
                   /\ ~outcome.panic
                   /\ outcome.status = 405
                   /\ \A rt \in RouteTables, fs \in Disks : response(rt, fs, request) = outcome

\* A DELETE of a registered path whose file exists has been answered with 405.
C7_Witness ==
    /\ pc = "resolved"
    /\ request.method = DELETE
    /\ request.uri.path \in DOMAIN routes
    /\ routes[request.uri.path] \in DOMAIN files
    /\ outcome.status = 405

\* The first line of the data has exactly three whitespace-separated tokens.
ThreeTokens(data) == Len(split_whitespace(first_of_lines(data), 1)) = 3

\* C8: a request whose first line does not consist of exactly three
\* whitespace-separated tokens is rejected with an error value: the handling
\* of its connection ends with Err, not with a panic, and nothing is written.
C8_MalformedRequestLineRejected ==
    \A j \in 1..Len(jobs) :
        (/\ jobs[j].stream.read = "ok"
         /\ ~ThreeTokens(jobs[j].stream.data)
         /\ Finished(j)) =>
            /\ handled[j] = "Err"
            /\ socket[j] = <<>>

\* start has ended: it returned, or it left by a panic.
StartEnded == pc \in {"returned", "panicked", "aborted"}

\* C9: start returns an error to its caller exactly when binding, pool
\* creation or an accept failed: it ends in no other way, the pool exists only
\* if binding succeeded, and once one of the three has failed no connection is
\* accepted or dispatched any more.
C9_StartReturnsError ==
    /\ pc = "returned" => result \in {"BindError", "PoolCreationError", "AcceptError"}
    /\ (StartEnded /\ result # "none") => pc = "returned"
    /\ result # "none" => pc \notin {"bind", "new", "loop", "execute"}
    /\ result = "BindError" => workers = 0

\* C10: execute never waits for a worker: whenever its caller is at the call it
\* can complete, whatever the workers are doing and however many tasks are
\* queued; while the channel is connected it completes by appending the task
\* to the queue, no worker taking a step, and its caller is back in its loop.
C10_ExecuteNeverWaits ==
    /\ [](pc = "execute" => ENABLED ThreadPool_execute)
    /\ [][(pc = "execute" /\ pc' # "execute" /\ ~Disconnected) =>
            /\ queue' = Append(queue, NewJob(Len(jobs) + 1))
            /\ jobs' = Append(jobs, pending)
            /\ pc' = "loop"
            /\ UNCHANGED <<thread, current, guard, delivered, ran>>]_vars

\* Every worker of a pool of two or more is executing a task, and the tasks
\* submitted since are all in the queue.
C10_Witness ==
    /\ pc = "loop"
    /\ workers >= 2
    /\ \A w \in Spawned : thread[w] = "executing"
    /\ Len(queue) >= 2
    /\ Len(jobs) = workers + Len(queue)

\* The arguments value has been called with so far.
Queried == {calls[i] : i \in 1..Len(calls)}

\* C11: each call value(a) returns f(a), also after calls with other
\* arguments; the values map holds exactly the arguments queried so far, each
\* mapped to f of it; and a call with an argument already present leaves the
\* map unchanged.
C11_CacherReturnsCalculation ==
    /\ [](pc = "cacher" =>
            /\ calls # <<>> => returned = calculation(cacher.calculation, calls[Len(calls)])
            /\ DOMAIN cacher.values = Queried
            /\ \A a \in DOMAIN cacher.values :
                   cacher.values[a] = calculation(cacher.calculation, a))
    /\ [][(pc = "cacher" /\ calls' # calls /\ calls'[Len(calls')] \in DOMAIN cacher.values) =>
            cacher'.values = cacher.values]_vars

\* value has been called with three different arguments and then again with
\* the first of them.
C11_Witness ==
    /\ pc = "cacher"
    /\ Len(calls) = 4
    /\ Cardinality(Queried) = 3
    /\ calls[4] = calls[1]
    /\ returned = calculation(cacher.calculation, calls[1])

\* C12: the channel is FIFO across the workers: a task is dequeued only after
\* every task submitted before it, whichever workers take them; the messages
\* waiting are in the order they were sent, every Terminate behind every task;
\* and once a worker has dequeued a Terminate, every task submitted has been
\* dequeued.
C12_QueueIsFIFO ==
    /\ \A i, j \in 1..Len(jobs) : (i < j /\ delivered[j] >= 1) => delivered[i] >= 1
    /\ \A p, q \in 1..Len(queue) :
           p < q => /\ queue[p].type = "Terminate" => queue[q].type = "Terminate"
                    /\ queue[q].type = "NewJob" => queue[p].job < queue[q].job
    /\ (\E w \in Spawned : thread[w] = "terminated") =>
           \A j \in 1..Len(jobs) : delivered[j] >= 1

\* One worker has dequeued a Terminate while another still executes the last
\* of three tasks.
C12_Witness ==
    /\ workers >= 2
    /\ Len(jobs) >= 3
    /\ \E w, v \in Spawned :
           /\ thread[w] = "terminated"
           /\ thread[v] = "executing"
           /\ current[v] = Len(jobs)

\* The state of the claim's machine a worker's thread is in: waiting for the
\* lock or for a message is Idle.
WorkerState(t) ==
    CASE t \in {"idle", "recv"} -> "Idle"
      [] t = "executing" -> "Executing"
      [] t = "terminated" -> "Terminated"
      [] OTHER -> t

\* C13: a worker only moves Idle -> Executing (a task received), Executing ->
\* Idle (the task done) and Idle -> Terminated (a Terminate received, or the
\* channel disconnected): its thread ends in no other way, never out of
\* Executing, and a worker whose thread has ended stays so and dequeues
\* nothing.
C13_WorkerStateMachine ==
    [][\A w \in WorkerIds :
          LET from == WorkerState(thread[w])
              to == WorkerState(thread'[w])
          IN  /\ from # to =>
                     <<from, to>> \in {<<"none", "Idle">>, <<"Idle", "Executing">>,
                                       <<"Executing", "Idle">>, <<"Idle", "Terminated">>}
              /\ (thread[w] = "recv" /\ thread'[w] # "recv") =>
                     (to = "Executing" <=> (queue # <<>> /\ Head(queue).type = "NewJob"))
              /\ Ended(w) => (current'[w] = current[w] /\ guard' # w)]_vars

\* The workers holding the MutexGuard of the receiver: those inside
\* receiver.lock().unwrap().recv().
Holders == {w \in Spawned : thread[w] = "recv"}

\* C14: at most one worker holds the lock on the receiver, a worker holds it
\* only while it waits for and dequeues a message, and no worker that is
\* executing a task holds it.
C14_LockOnlyWhileDequeuing ==
    /\ Cardinality(Holders) <= 1
    /\ \A w \in Spawned : guard = w <=> w \in Holders
    /\ \A w \in Spawned : thread[w] = "executing" => guard # w
    /\ guard # 0 => guard \in Spawned

\* As many tasks as the pool has workers, two or more, execute at the same
\* time, each on its own worker, and the lock is free.
C14_Witness ==
    /\ workers = MaxWorkers
    /\ workers >= 2
    /\ \A w \in Spawned : thread[w] = "executing" /\ current[w] # 0
    /\ \A w, v \in Spawned : w # v => current[w] # current[v]
    /\ guard = 0

\* The requests whose bytes are the ones received.
Sent == {w \in Wires : Bytes(w) = received}

\* C15: a buffer whose first line is "METHOD PATH VERSION" and a line break,
\* with a known method and a recognized version, is parsed into a Request
\* whose method, path and version are exactly the three tokens, without the
\* whitespace between them and without the line break.
C15_RequestLineTokens ==
    pc = "parsed" =>
        \A w \in Sent :
            w.version \in Versions =>
                /\ ~parse.panic
                /\ parse.request.method = w.method
                /\ parse.request.uri.path = w.path
                /\ parse.request.version = w.version

\* C16: the version token is accepted exactly when it is one of HTTP/0.9,
\* HTTP/1.0, HTTP/1.1, HTTP/2.0 and HTTP/3.0; with any other version token
\* the parser ends without a Request and without a panic.
C16_VersionAcceptance ==
    pc = "parsed" =>
        \A w \in Sent :
            /\ ~parse.panic
            /\ (parse.request # NoRequest) <=> (w.version \in Versions)

\* The bytes of the buffer behind the blank line of w.
AfterBlank(w) ==
    SubSeq(Buffer(Bytes(w)), Len(Bytes(w)) - Len(w.body) + 1, BUFFER_SIZE)

\* C17: the lines between the request line and the first blank line are the
\* headers, in order, each split at its first ":"; reading headers stops at
\* the blank line; the body is the bytes of the buffer behind the blank line,
\* and is empty when there is no blank line.
C17_HeadersAndBody ==
    (pc = "parsed" /\ module = "web_server.rs") =>
        \A w \in Sent :
            w.version \in Versions =>
                /\ ~parse.panic
                /\ parse.request.headers = w.headers
                /\ parse.request.body = IF w.blank THEN AfterBlank(w) ELSE <<>>

\* C18: the route table is the one given to WebServer::new in every state of
\* the server's life: no step of start, of a worker or of a task changes it,
\* whether the task succeeds or fails, and every task that has ended was
\* handled against that table.
C18_RoutesNeverChange ==
    /\ [](routes = MainRoutes)
    /\ [][routes' = routes]_vars
    /\ [](\A j \in 1..Len(jobs) :
            Finished(j) =>
                handled[j] = Handling[module, MainRoutes, files, jobs[j].stream].result)

\* Two connections have been handled, one ending in an error of read and one
\* in a panic, start has ended, and the route table is the one of main.rs.
C18_Witness ==
    /\ StartEnded
    /\ Len(jobs) = 2
    /\ \E i, j \in 1..2 : handled[i] = "Err" /\ handled[j] = "panic"
    /\ <<"/">> \in DOMAIN routes
    /\ routes[<<"/">>] = "hello.html"

\* C19: after a failed accept, start ends only by returning the error, and
\* only once drop has sent one Terminate per worker behind the tasks
\* dispatched and has joined every worker: every connection accepted before
\* the failure has then been received by a worker and handled to its end.
C19_AcceptErrorAfterDrain ==
    (StartEnded /\ result = "AcceptError") =>
        /\ pc = "returned"
        /\ sent = workers
        /\ joined = workers
        /\ \A j \in 1..Len(jobs) : delivered[j] = 1 /\ Finished(j)
        /\ \A w \in Spawned : thread[w] = "terminated"

====
